---- MODULE Spec2Model ----
(***************************************************************************)
(* Model of poll_once.py: the LTA DataMall EV-charging poller.             *)
(*                                                                         *)
(* JSON values are tagged records so that values of different Python       *)
(* types can be compared: Null, IntV(n), FloatV(n, d) (the number n.d,     *)
(* d one decimal digit), BoolV(b), StrV(s) with s a sequence of            *)
(* one-character strings, ArrV(s) with s a sequence of values.             *)
(* A JSON object is a TLA+ function from the keys it has to their values.  *)
(***************************************************************************)
EXTENDS Integers, Sequences, FiniteSets, TLC

\* ------------------------------------------------------------------
\*  Bounds of the model
\* ------------------------------------------------------------------

\* longest raw status string given to the decoders
MaxCodeLen == 4
\* largest integer status code given to the decoders
MaxCodeInt == 101
\* most nodes (locations, charging points, plug types, connectors) of a payload
MaxNodes == 8
\* most connectors of a payload downloaded by a run
MaxBatch == 2
\* most runs the schedule starts
MaxRuns == 3

\* ------------------------------------------------------------------
\*  State
\* ------------------------------------------------------------------

VARIABLES
    raw,         \* the raw status code given to the decoders
    descs        \* the three descriptions decoded from it

decVars == <<raw, descs>>

VARIABLES
    fpayload,    \* the payload given to flatten_evc_batch
    flattened,   \* whether it has returned
    frame        \* what it returned

flatVars == <<fpayload, flattened, frame>>

VARIABLES
    pc,          \* where main() is: start, resolve, download, flatten, append, report, exited
    main_account_key,  \* os.environ.get("LTA_ACCOUNT_KEY") of this run
    calls,       \* the requests.get calls of this run, in order
    linkRes,     \* the response of the link resolver
    link,        \* what get_ev_batch_download_link returned
    dlRes,       \* the response of the download
    main_payload, \* what download_ev_batch_json returned
    fetched_at,  \* the timestamp of this run
    main_df,     \* the frame of this run
    err,         \* the exception that ended this run
    clock,       \* the time, in seconds
    dirExists,   \* data/ exists
    fileExists,  \* data/evc_history.csv exists
    file,        \* its content
    stdout,      \* what the runs printed
    runs,        \* the runs started
    atStart      \* the directory and the file as this run found them

runVars == <<pc, main_account_key, calls, linkRes, link, dlRes, main_payload,
             fetched_at, main_df, err, clock, dirExists, fileExists, file, stdout,
             runs, atStart>>

vars == <<decVars, flatVars, runVars>>

\* ------------------------------------------------------------------
\*  Values
\* ------------------------------------------------------------------

Null == [t |-> "null"]
NaN == [t |-> "nan"]
IntV(n) == [t |-> "int", v |-> n]
FloatV(n, d) == [t |-> "float", v |-> <<n, d>>]
BoolV(b) == [t |-> "bool", v |-> b]
StrV(s) == [t |-> "str", v |-> s]
ArrV(s) == [t |-> "arr", v |-> s]

Whitespace == {" ", "\t"}

DigitChar(d) == CASE d = 0 -> "0" [] d = 1 -> "1" [] d = 2 -> "2" [] d = 3 -> "3"
                  [] d = 4 -> "4" [] d = 5 -> "5" [] d = 6 -> "6" [] d = 7 -> "7"
                  [] d = 8 -> "8" [] d = 9 -> "9"

RECURSIVE NatStr(_)
NatStr(n) == IF n < 10 THEN <<DigitChar(n)>>
             ELSE NatStr(n \div 10) \o <<DigitChar(n % 10)>>

IntStr(n) == IF n < 0 THEN <<"-">> \o NatStr(0 - n) ELSE NatStr(n)

\* str(x) of a JSON scalar that is not None
PyStr(x) == CASE x.t = "str" -> x.v
              [] x.t = "int" -> IntStr(x.v)
              [] x.t = "float" -> IntStr(x.v[1]) \o <<".">> \o NatStr(x.v[2])
              [] x.t = "bool" -> IF x.v THEN <<"T", "r", "u", "e">>
                                 ELSE <<"F", "a", "l", "s", "e">>

RECURSIVE LStrip(_)
LStrip(s) == IF s # <<>> /\ Head(s) \in Whitespace THEN LStrip(Tail(s)) ELSE s

RECURSIVE RStrip(_)
RStrip(s) == IF s # <<>> /\ s[Len(s)] \in Whitespace
             THEN RStrip(SubSeq(s, 1, Len(s) - 1)) ELSE s

\* str.strip()
Strip(s) == RStrip(LStrip(s))

\* "" if code is None else str(code).strip()
Normalise(code) == IF code.t = "null" THEN <<>> ELSE Strip(PyStr(code))

\* dict.get(key, default) on a TLA+ function
Get(d, key, default) == IF key \in DOMAIN d THEN d[key] ELSE default

\* ------------------------------------------------------------------
\*  Status decoders
\* ------------------------------------------------------------------

LocationTable ==
    (<<"0">> :> "Occupied (all points occupied)")
    @@ (<<"1">> :> "Available (at least one point available)")
    @@ (<<"1", "0", "0">> :> "Not Available (all points not available)")
    @@ (<<>> :> "Unknown/Not Provided")

PointTable ==
    (<<"0">> :> "Occupied")
    @@ (<<"1">> :> "Available")
    @@ (<<"1", "0", "0">> :> "Not Available")
    @@ (<<>> :> "Unknown/Not Provided")

\* the connector table, had it the "100" of the other two
EvidTableWith100 ==
    (<<"0">> :> "Occupied")
    @@ (<<"1">> :> "Available")
    @@ (<<"1", "0", "0">> :> "Not Available")
    @@ (<<>> :> "Not Available")

EvidTable ==
    (<<"0">> :> "Occupied")
    @@ (<<"1">> :> "Available")
    @@ (<<>> :> "Not Available")

decode_location_status(code) == Get(LocationTable, Normalise(code), "Unknown/Other")

decode_point_status(code) == Get(PointTable, Normalise(code), "Unknown/Other")

decode_evid_status(code) == Get(EvidTable, Normalise(code), "Unknown/Other")

\* ------------------------------------------------------------------
\*  Flattening
\* ------------------------------------------------------------------

\* Python truth value of a JSON value
Falsy(x) == \/ x.t = "null"
            \/ (x.t = "arr" /\ x.v = <<>>)
            \/ (x.t = "str" /\ x.v = <<>>)
            \/ (x.t = "int" /\ x.v = 0)
            \/ (x.t = "bool" /\ ~x.v)

\* a JSON object (a dict), as opposed to a scalar or an array
IsObject(x) == "t" \notin DOMAIN x

\* obj.get(key, []), the `or []` forgotten
ArrayNoOr(obj, key) == Get(obj, key, ArrV(<<>>))

\* obj.get(key, []) or []
ArrayOrEmpty(obj, key) ==
    LET x == Get(obj, key, ArrV(<<>>)) IN IF Falsy(x) THEN ArrV(<<>>) ELSE x

\* `for e in x: e.get(...)` raises when x is not iterable (TypeError) or an
\* element has no get (AttributeError)
LoopRaises(x) == \/ x.t # "arr"
                 \/ \E n \in 1 .. Len(x.v) : ~IsObject(x.v[n])

RECURSIVE Concat(_)
Concat(seqs) == IF seqs = <<>> THEN <<>> ELSE Head(seqs) \o Concat(Tail(seqs))

\* the outcome of a loop from those of its iterations: the rows appended, or
\* raised when one iteration raised
Collect(outs) ==
    [raised |-> \E n \in 1 .. Len(outs) : outs[n].raised,
     rows |-> Concat([n \in 1 .. Len(outs) |-> outs[n].rows])]

Raised == [raised |-> TRUE, rows |-> <<>>]

\* the dict appended to rows for one connector entry; a decoded description
\* is kept as one piece of text
Row(fetched_at_utc, last_updated, loc, cp, plug, ev) ==
    [fetchedAtUTC |-> fetched_at_utc,
     LastUpdatedTime |-> last_updated,
     location_address |-> Get(loc, "address", Null),
     location_name |-> Get(loc, "name", Null),
     location_longtitude |-> Get(loc, "longtitude", Null),
     location_latitude |-> Get(loc, "latitude", Null),
     location_postalCode |-> Get(loc, "postalCode", Null),
     location_locationId |-> Get(loc, "locationId", Null),
     location_status |-> Get(loc, "status", Null),
     location_status_desc |-> StrV(<<decode_location_status(Get(loc, "status", Null))>>),
     cp_status |-> Get(cp, "status", Null),
     cp_status_desc |-> StrV(<<decode_point_status(Get(cp, "status", Null))>>),
     cp_operatingHours |-> Get(cp, "operatingHours", Null),
     cp_operator |-> Get(cp, "operator", Null),
     cp_position |-> Get(cp, "position", Null),
     cp_name |-> Get(cp, "name", Null),
     cp_id |-> Get(cp, "id", Null),
     plug_plugType |-> Get(plug, "plugType", Null),
     plug_powerRating |-> Get(plug, "powerRating", Null),
     plug_chargingSpeed |-> Get(plug, "chargingSpeed", Null),
     plug_current |-> Get(plug, "current", Null),
     plug_price |-> Get(plug, "price", Null),
     plug_priceType |-> Get(plug, "priceType", Null),
     ev_id |-> Get(ev, "id", Null),
     evCpId |-> Get(ev, "evCpId", Null),
     ev_status |-> Get(ev, "status", Null),
     ev_status_desc |-> StrV(<<decode_evid_status(Get(ev, "status", Null))>>)]

\* the keys of a row, in insertion order
Columns ==
    <<"fetchedAtUTC", "LastUpdatedTime", "location_address", "location_name",
      "location_longtitude", "location_latitude", "location_postalCode",
      "location_locationId", "location_status", "location_status_desc",
      "cp_status", "cp_status_desc", "cp_operatingHours", "cp_operator",
      "cp_position", "cp_name", "cp_id", "plug_plugType", "plug_powerRating",
      "plug_chargingSpeed", "plug_current", "plug_price", "plug_priceType",
      "ev_id", "evCpId", "ev_status", "ev_status_desc">>

\* rows.append(...) one level out, after the loop over ev_ids: one row per plug
\* type that has a connector, for its last connector
PlugRowsDedented(fetched_at_utc, last_updated, loc, cp, plug) ==
    LET ev_ids == ArrayOrEmpty(plug, "evIds")
    IN IF LoopRaises(ev_ids) THEN Raised
       ELSE [raised |-> FALSE,
             rows |-> IF ev_ids.v = <<>> THEN <<>>
                      ELSE <<Row(fetched_at_utc, last_updated, loc, cp, plug,
                                 ev_ids.v[Len(ev_ids.v)])>>]

\* for ev in ev_ids
PlugRows(fetched_at_utc, last_updated, loc, cp, plug) ==
    LET ev_ids == ArrayOrEmpty(plug, "evIds")
    IN IF LoopRaises(ev_ids) THEN Raised
       ELSE [raised |-> FALSE,
             rows |-> [l \in 1 .. Len(ev_ids.v) |->
                         Row(fetched_at_utc, last_updated, loc, cp, plug, ev_ids.v[l])]]

\* for plug in plug_types
PointRows(fetched_at_utc, last_updated, loc, cp) ==
    LET plug_types == ArrayOrEmpty(cp, "plugTypes")
    IN IF LoopRaises(plug_types) THEN Raised
       ELSE Collect([k \in 1 .. Len(plug_types.v) |->
                       PlugRows(fetched_at_utc, last_updated, loc, cp, plug_types.v[k])])

\* for cp in charging_points
LocationRows(fetched_at_utc, last_updated, loc) ==
    LET charging_points == ArrayOrEmpty(loc, "chargingPoints")
    IN IF LoopRaises(charging_points) THEN Raised
       ELSE Collect([j \in 1 .. Len(charging_points.v) |->
                       PointRows(fetched_at_utc, last_updated, loc, charging_points.v[j])])

\* for loc in locations; payload.get raises when the payload is no dict
BuildRows(payload, fetched_at_utc) ==
    IF ~IsObject(payload) THEN Raised
    ELSE LET last_updated == Get(payload, "LastUpdatedTime", Null)
             locations == ArrayOrEmpty(payload, "evLocationsData")
         IN IF LoopRaises(locations) THEN Raised
            ELSE Collect([i \in 1 .. Len(locations.v) |->
                            LocationRows(fetched_at_utc, last_updated, locations.v[i])])

\* pd.DataFrame(rows): no rows, no columns
DataFrame(rows) == [columns |-> IF rows = <<>> THEN <<>> ELSE Columns, rows |-> rows]

\* one value under astype("string"): None becomes <NA>
AsString(x) == IF x.t = "null" THEN Null ELSE StrV(PyStr(x))

Digits == {"0", "1", "2", "3", "4", "5", "6", "7", "8", "9"}

DigitValue(c) == CHOOSE d \in 0 .. 9 : DigitChar(d) = c

RECURSIVE NatValue(_)
NatValue(s) == IF s = <<>> THEN 0
               ELSE 10 * NatValue(SubSeq(s, 1, Len(s) - 1)) + DigitValue(s[Len(s)])

IsDigits(s) == s # <<>> /\ \A n \in 1 .. Len(s) : s[n] \in Digits

\* the number a string parses to, NaN when it is no number
ParseNumber(s) ==
    IF IsDigits(s) THEN IntV(NatValue(s))
    ELSE IF /\ Len(s) >= 3
            /\ s[Len(s) - 1] = "."
            /\ IsDigits(SubSeq(s, 1, Len(s) - 2))
            /\ s[Len(s)] \in Digits
         THEN FloatV(NatValue(SubSeq(s, 1, Len(s) - 2)), DigitValue(s[Len(s)]))
         ELSE NaN

\* one value under pd.to_numeric(errors="ignore"): what does not parse is kept
ToNumericValueIgnore(x) == CASE x.t = "int" -> x
                             [] x.t = "float" -> x
                             [] x.t = "str" /\ ParseNumber(x.v) # NaN -> ParseNumber(x.v)
                             [] OTHER -> x

\* one value under pd.to_numeric(errors="coerce")
ToNumericValue(x) == CASE x.t = "int" -> x
                       [] x.t = "float" -> x
                       [] x.t = "str" -> ParseNumber(x.v)
                       [] OTHER -> NaN

\* the column's dtype: int64 when every value is an integer, float64 otherwise
Upcast(x, allInts) == IF x.t = "int" /\ ~allInts THEN FloatV(x.v, 0) ELSE x

\* pd.to_numeric(column, errors="coerce")
ToNumeric(col) ==
    LET vals == [n \in 1 .. Len(col) |-> ToNumericValue(col[n])]
        allInts == \A n \in 1 .. Len(vals) : vals[n].t = "int"
    IN [n \in 1 .. Len(vals) |-> Upcast(vals[n], allInts)]

\* the frame returned, or raised when building the rows raised
flatten_evc_batch(payload, fetched_at_utc) ==
    LET built == BuildRows(payload, fetched_at_utc)
        df == DataFrame(built.rows)
        n == Len(df.rows)
        long == ToNumeric([r \in 1 .. n |-> df.rows[r].location_longtitude])
        lat == ToNumeric([r \in 1 .. n |-> df.rows[r].location_latitude])
    IN [raised |-> built.raised,
        columns |-> df.columns,
        rows |-> [r \in 1 .. n |->
                    [df.rows[r] EXCEPT
                        !.location_postalCode = AsString(@),
                        !.location_longtitude = long[r],
                        !.location_latitude = lat[r]]]]

\* ------------------------------------------------------------------
\*  Payloads given to the flattening
\* ------------------------------------------------------------------

\* A shape is a forest: a sequence of nodes, a node being the sequence of its
\* children.  Levels: 1 location, 2 charging point, 3 plug type, 4 connector.
RECURSIVE ForestsOfSize(_, _)
ForestsOfSize(depth, n) ==
    IF n = 0 THEN {<<>>}
    ELSE IF depth = 0 THEN {}
    ELSE UNION {{<<kids>> \o rest : kids \in ForestsOfSize(depth - 1, k - 1),
                                    rest \in ForestsOfSize(depth, n - k)} : k \in 1 .. n}

Shapes == UNION {ForestsOfSize(4, n) : n \in 0 .. MaxNodes}

\* how an array without elements is given: key absent, null, or []
EmptyKinds == {"absent", "null", "empty"}

\* the coordinate values of the locations of a payload
CoordProfiles == {"ints", "badlong", "strings", "missing"}

ChildKey(level) == CASE level = 0 -> "evLocationsData"
                     [] level = 1 -> "chargingPoints"
                     [] level = 2 -> "plugTypes"
                     [] level = 3 -> "evIds"

Id(prefix, i) == StrV(<<prefix>> \o NatStr(i))

StatusCodes == <<StrV(<<"1">>), IntV(0), StrV(<<" ", "1", "0", "0">>), Null, StrV(<<"x">>)>>

Status(level, i) == StatusCodes[((level + i) % Len(StatusCodes)) + 1]

Coord(prof, i) ==
    CASE prof = "ints" ->
           ("longtitude" :> IntV(103)) @@ ("latitude" :> IntV(i))
      [] prof = "badlong" ->
           ("longtitude" :> IF i = 1 THEN StrV(<<"N", "/", "A">>) ELSE IntV(103))
           @@ ("latitude" :> FloatV(1, 3))
      [] prof = "strings" ->
           ("longtitude" :> IF i = 1 THEN StrV(<<"1", "0", "3">>)
                            ELSE StrV(<<"1", "0", "3", ".", "8">>))
           @@ ("latitude" :> IF i = 2 THEN StrV(<<>>) ELSE StrV(<<"1", ".", "3">>))
      [] prof = "missing" ->
           IF i = 1 THEN ("longtitude" :> FloatV(103, 8)) @@ ("latitude" :> Null)
           ELSE ("longtitude" :> IntV(103))

Postal(i) == CASE i = 1 -> StrV(<<"0", "1", "2", "3", "4">>)
               [] i = 2 -> IntV(1234)
               [] OTHER -> Null

\* the scalar fields of the i-th node of its array; later siblings lack some keys
Attrs(level, i, prof) ==
    CASE level = 1 ->
           IF i <= 2
           THEN ("address" :> Id("A", i)) @@ ("name" :> Id("N", i))
                @@ ("postalCode" :> Postal(i)) @@ ("locationId" :> Id("L", i))
                @@ ("status" :> Status(1, i)) @@ Coord(prof, i)
           ELSE ("locationId" :> Id("L", i)) @@ ("postalCode" :> Postal(i))
                @@ Coord(prof, i)
      [] level = 2 ->
           IF i <= 2
           THEN ("status" :> Status(2, i)) @@ ("operatingHours" :> Id("H", i))
                @@ ("operator" :> Id("O", i)) @@ ("position" :> Id("S", i))
                @@ ("name" :> Id("M", i)) @@ ("id" :> Id("C", i))
           ELSE ("id" :> Id("C", i))
      [] level = 3 ->
           IF i <= 2
           THEN ("plugType" :> Id("P", i)) @@ ("powerRating" :> IntV(7 * i))
                @@ ("chargingSpeed" :> Id("V", i)) @@ ("current" :> Id("I", i))
                @@ ("price" :> FloatV(0, i)) @@ ("priceType" :> Id("Y", i))
           ELSE ("plugType" :> Id("P", i))
      [] level = 4 ->
           IF i <= 2
           THEN ("id" :> Id("E", i)) @@ ("evCpId" :> Id("D", i))
                @@ ("status" :> Status(4, i))
           ELSE ("id" :> Id("E", i))

RECURSIVE WithChildren(_, _, _, _, _)
\* obj with the array of `level`'s children built from the shape `kids`
WithChildren(obj, level, kids, ek, prof) ==
    IF level = 4 THEN obj
    ELSE IF kids = <<>>
    THEN CASE ek = "absent" -> obj
           [] ek = "null" -> obj @@ (ChildKey(level) :> Null)
           [] ek = "empty" -> obj @@ (ChildKey(level) :> ArrV(<<>>))
    ELSE obj @@ (ChildKey(level) :>
                   ArrV([c \in 1 .. Len(kids) |->
                           WithChildren(Attrs(level + 1, c, prof), level + 1,
                                        kids[c], ek, prof)]))

MakePayload(shape, ek, prof) ==
    WithChildren("LastUpdatedTime" :> StrV(<<"U">>), 0, shape, ek, prof)

Payloads == {MakePayload(sh, ek, prof) :
                sh \in Shapes, ek \in EmptyKinds, prof \in CoordProfiles}

\* ------------------------------------------------------------------
\*  Specification of the flattening: one payload, flattened
\* ------------------------------------------------------------------

FetchedAt == StrV(<<"T">>)

NoFrame == [raised |-> FALSE, columns |-> <<>>, rows |-> <<>>]

Flatten ==
    /\ ~flattened
    /\ flattened' = TRUE
    /\ frame' = flatten_evc_batch(fpayload, FetchedAt)
    /\ UNCHANGED fpayload
    /\ UNCHANGED <<decVars, runVars>>

\* ------------------------------------------------------------------
\*  Specification of the decoders: one raw code, decoded by all three
\* ------------------------------------------------------------------

CodeChars == {"0", "1", "x", " ", "\t"}

RECURSIVE StringsUpTo(_, _)
StringsUpTo(chars, n) ==
    IF n = 0 THEN {<<>>}
    ELSE LET shorter == StringsUpTo(chars, n - 1)
         IN shorter \cup {<<c>> \o s : c \in chars, s \in {x \in shorter : Len(x) = n - 1}}

RawCodes ==
    {Null, BoolV(TRUE), BoolV(FALSE), FloatV(0, 0), FloatV(1, 0), FloatV(100, 0)}
    \cup {IntV(n) : n \in -1 .. MaxCodeInt}
    \cup {StrV(s) : s \in StringsUpTo(CodeChars, MaxCodeLen)}

NoDescs == [location |-> "", point |-> "", evid |-> ""]

Decode ==
    /\ descs = NoDescs
    /\ descs' = [location |-> decode_location_status(raw),
                 point |-> decode_point_status(raw),
                 evid |-> decode_evid_status(raw)]
    /\ UNCHANGED raw
    /\ UNCHANGED <<flatVars, runVars>>

\* ------------------------------------------------------------------
\*  The run: main(), its two network calls and the CSV file
\* ------------------------------------------------------------------

EVCBATCH_ENDPOINT == StrV(<<"https://datamall2.mytransport.sg/ltaodataservice/EVCBatch">>)

\* a response body that is not JSON
NotJson == [t |-> "notjson"]

NoError == [cls |-> "none", msg |-> "", detail |-> Null]

Error(cls, msg, detail) == [cls |-> cls, msg |-> msg, detail |-> detail]

\* a check of the status that lets the client errors through
RaisesForServerError(status) == 500 <= status /\ status < 600

\* res.raise_for_status(): raises HTTPError for a 4xx or 5xx status
RaisesForStatus(status) == 400 <= status /\ status < 600

\* `not value or "Link" not in value[0]`, value being absent, null or an array of dicts
NoLink(value) == Falsy(value) \/ "Link" \notin DOMAIN value.v[1]

\* value[-1]["Link"]
LastLink(value) == value.v[Len(value.v)]["Link"]

\* value[0]["Link"]
FirstLink(value) == value.v[1]["Link"]

\* `account_key is None`: an empty variable passes
UnsetKey(account_key) == account_key.t = "null"

\* `not account_key`: the variable is unset (None) or empty
MissingKey(account_key) == Falsy(account_key)

\* one value as to_csv writes it: a missing value is written as nothing
CsvCell(x) == CASE x.t \in {"null", "nan"} -> <<>>
                [] OTHER -> PyStr(x)

HeaderLine(columns) == [kind |-> "header", cells |-> [c \in 1 .. Len(columns) |-> <<columns[c]>>]]

RowLine(row) ==
    [kind |-> "row",
     cells |-> <<CsvCell(row.fetchedAtUTC), CsvCell(row.LastUpdatedTime),
                 CsvCell(row.location_address), CsvCell(row.location_name),
                 CsvCell(row.location_longtitude), CsvCell(row.location_latitude),
                 CsvCell(row.location_postalCode), CsvCell(row.location_locationId),
                 CsvCell(row.location_status), CsvCell(row.location_status_desc),
                 CsvCell(row.cp_status), CsvCell(row.cp_status_desc),
                 CsvCell(row.cp_operatingHours), CsvCell(row.cp_operator),
                 CsvCell(row.cp_position), CsvCell(row.cp_name), CsvCell(row.cp_id),
                 CsvCell(row.plug_plugType), CsvCell(row.plug_powerRating),
                 CsvCell(row.plug_chargingSpeed), CsvCell(row.plug_current),
                 CsvCell(row.plug_price), CsvCell(row.plug_priceType),
                 CsvCell(row.ev_id), CsvCell(row.evCpId), CsvCell(row.ev_status),
                 CsvCell(row.ev_status_desc)>>]

\* The file is its byte-order mark (utf-8-sig writes it once, at offset 0)
\* and its lines.
EmptyFile == [bom |-> FALSE, lines |-> <<>>]

\* csv_path.stat().st_size > 0
NonEmpty(f) == f.bom \/ f.lines # <<>>

\* df.to_csv(csv_path, mode="w", ...): the file is written anew
to_csv_truncating(f, df, header) ==
    LET written == (IF header THEN <<HeaderLine(df.columns)>> ELSE <<>>)
                   \o [r \in 1 .. Len(df.rows) |-> RowLine(df.rows[r])]
    IN [bom |-> written # <<>>, lines |-> written]

\* df.to_csv(csv_path, mode="a", index=False, header=header): the header line
\* is the frame's column names, none for a frame without rows
to_csv(f, df, header) ==
    LET written == (IF header THEN <<HeaderLine(df.columns)>> ELSE <<>>)
                   \o [r \in 1 .. Len(df.rows) |-> RowLine(df.rows[r])]
    IN [bom |-> f.bom \/ written # <<>>, lines |-> f.lines \o written]

Meta == "odata.metadata" :> StrV(<<"m">>)

Url(n) == StrV(<<"https://dl/">> \o NatStr(n))

\* what the link resolver may answer
LinkResponses ==
    {[status |-> st, body |-> NotJson] : st \in {401, 500}}
    \cup {[status |-> 200, body |-> b] : b \in
            {NotJson,
             ArrV(<<>>),
             Meta,
             Meta @@ ("value" :> Null),
             Meta @@ ("value" :> ArrV(<<>>)),
             Meta @@ ("value" :> ArrV(<<"Other" :> Url(1)>>)),
             Meta @@ ("value" :> ArrV(<<"Link" :> Url(1)>>)),
             Meta @@ ("value" :> ArrV(<<"Link" :> Url(2), "Link" :> Url(1)>>)),
             Meta @@ ("value" :> ArrV(<<"Link" :> Null>>))}}

\* one location, one charging point, one plug type, e connectors
Chain(e) == << << << [n \in 1 .. e |-> <<>>] >> >> >>

\* what the download may answer
DownloadResponses ==
    {[status |-> st, body |-> NotJson] : st \in {404, 503}}
    \cup {[status |-> 200, body |-> b] : b \in
            {NotJson, ArrV(<<>>), MakePayload(<<>>, "null", "ints")}
            \cup {MakePayload(Chain(e), "absent", "badlong") : e \in 0 .. MaxBatch}}

NoResponse == [status |-> 0, body |-> NotJson]

Timestamp(t) == StrV(<<"T">> \o NatStr(t))

Snapshot == [dirExists |-> dirExists, fileExists |-> fileExists, file |-> file]

\* the payload of a specification that flattens nothing
IdlePayload == MakePayload(<<>>, "empty", "ints")

\* The first run starts; the file is missing or empty.
Init ==
    /\ pc = "start"
    /\ main_account_key \in {Null, StrV(<<>>), StrV(<<"K">>)}
    /\ calls = <<>>
    /\ linkRes = NoResponse
    /\ link = Null
    /\ dlRes = NoResponse
    /\ main_payload = Null
    /\ fetched_at = Null
    /\ main_df = NoFrame
    /\ err = NoError
    /\ clock = 1
    /\ dirExists \in BOOLEAN
    /\ fileExists \in {FALSE, dirExists}
    /\ file = EmptyFile
    /\ stdout = <<>>
    /\ runs = 1
    /\ atStart = [dirExists |-> dirExists, fileExists |-> fileExists, file |-> file]
    /\ raw = Null
    /\ descs = NoDescs
    /\ fpayload = IdlePayload
    /\ flattened = FALSE
    /\ frame = NoFrame

InitDecode ==
    /\ raw \in RawCodes
    /\ descs = NoDescs
    /\ fpayload = IdlePayload
    /\ flattened = FALSE
    /\ frame = NoFrame
    /\ pc = "exited"
    /\ main_account_key = Null
    /\ calls = <<>>
    /\ linkRes = NoResponse
    /\ link = Null
    /\ dlRes = NoResponse
    /\ main_payload = Null
    /\ fetched_at = Null
    /\ main_df = NoFrame
    /\ err = NoError
    /\ clock = 1
    /\ dirExists = FALSE
    /\ fileExists = FALSE
    /\ file = EmptyFile
    /\ stdout = <<>>
    /\ runs = MaxRuns
    /\ atStart = [dirExists |-> FALSE, fileExists |-> FALSE, file |-> EmptyFile]

InitFlatten ==
    /\ fpayload \in Payloads
    /\ flattened = FALSE
    /\ frame = NoFrame
    /\ raw = Null
    /\ descs = NoDescs
    /\ pc = "exited"
    /\ main_account_key = Null
    /\ calls = <<>>
    /\ linkRes = NoResponse
    /\ link = Null
    /\ dlRes = NoResponse
    /\ main_payload = Null
    /\ fetched_at = Null
    /\ main_df = NoFrame
    /\ err = NoError
    /\ clock = 1
    /\ dirExists = FALSE
    /\ fileExists = FALSE
    /\ file = EmptyFile
    /\ stdout = <<>>
    /\ runs = MaxRuns
    /\ atStart = [dirExists |-> FALSE, fileExists |-> FALSE, file |-> EmptyFile]

\* raise: the process ends with the exception
Raise(e) ==
    /\ pc' = "exited"
    /\ err' = e

\* main() making the output directory first, before it looks at the key
MainStartMkdirFirst ==
    /\ pc = "start"
    /\ dirExists' = TRUE
    /\ IF MissingKey(main_account_key)
       THEN Raise(Error("RuntimeError",
                        "Missing env var LTA_ACCOUNT_KEY. Add it as a GitHub Secret.",
                        Null))
       ELSE pc' = "resolve" /\ err' = err
    /\ UNCHANGED <<main_account_key, calls, linkRes, link, dlRes, main_payload,
                   fetched_at, main_df, clock, fileExists, file, stdout, runs, atStart>>
    /\ UNCHANGED <<decVars, flatVars>>

\* main(), lines 190-192
MainStart ==
    /\ pc = "start"
    /\ IF MissingKey(main_account_key)
       THEN Raise(Error("RuntimeError",
                        "Missing env var LTA_ACCOUNT_KEY. Add it as a GitHub Secret.",
                        Null))
       ELSE pc' = "resolve" /\ err' = err
    /\ UNCHANGED <<main_account_key, calls, linkRes, link, dlRes, main_payload,
                   fetched_at, main_df, clock, dirExists, fileExists, file, stdout, runs, atStart>>
    /\ UNCHANGED <<decVars, flatVars>>

get_ev_batch_download_link ==
    /\ pc = "resolve"
    /\ \E res \in LinkResponses :
        /\ calls' = Append(calls, [url |-> EVCBATCH_ENDPOINT, AccountKey |-> main_account_key])
        /\ linkRes' = res
        /\ IF RaisesForStatus(res.status)
           THEN Raise(Error("HTTPError", "", Null)) /\ link' = link
           ELSE IF res.body = NotJson
           THEN Raise(Error("JSONDecodeError", "", Null)) /\ link' = link
           ELSE IF ~IsObject(res.body)
           THEN Raise(Error("AttributeError", "", Null)) /\ link' = link
           ELSE LET value == Get(res.body, "value", ArrV(<<>>))
                IN IF NoLink(value)
                   THEN /\ Raise(Error("RuntimeError",
                                       "No 'Link' found in response. Full response:",
                                       res.body))
                        /\ link' = link
                   ELSE /\ link' = FirstLink(value)
                        /\ pc' = "download"
                        /\ err' = err
    /\ UNCHANGED <<main_account_key, dlRes, main_payload, fetched_at, main_df, clock,
                   dirExists, fileExists, file, stdout, runs, atStart>>
    /\ UNCHANGED <<decVars, flatVars>>

download_ev_batch_json ==
    /\ pc = "download"
    /\ IF link.t # "str"
       THEN \* requests.get refuses what is no URL, before anything is sent
            /\ Raise(Error("MissingSchema", "", Null))
            /\ UNCHANGED <<calls, dlRes, main_payload>>
       ELSE \E res \in DownloadResponses :
            /\ calls' = Append(calls, [url |-> link, AccountKey |-> Null])
            /\ dlRes' = res
            /\ IF RaisesForStatus(res.status)
               THEN Raise(Error("HTTPError", "", Null)) /\ main_payload' = main_payload
               ELSE IF res.body = NotJson
               THEN Raise(Error("JSONDecodeError", "", Null)) /\ main_payload' = main_payload
               ELSE main_payload' = res.body /\ pc' = "flatten" /\ err' = err
    /\ UNCHANGED <<main_account_key, linkRes, link, fetched_at, main_df, clock, dirExists,
                   fileExists, file, stdout, runs, atStart>>
    /\ UNCHANGED <<decVars, flatVars>>

\* main(), lines 195-202
FlattenPayload ==
    /\ pc = "flatten"
    /\ fetched_at' = Timestamp(clock)
    /\ LET out == flatten_evc_batch(main_payload, Timestamp(clock))
       IN IF out.raised
          THEN Raise(Error("AttributeError", "", Null)) /\ main_df' = main_df
          ELSE main_df' = out /\ pc' = "append" /\ err' = err
    /\ UNCHANGED <<main_account_key, calls, linkRes, link, dlRes, main_payload, clock, dirExists,
                   fileExists, file, stdout, runs, atStart>>
    /\ UNCHANGED <<decVars, flatVars>>

append_to_csv ==
    /\ pc = "append"
    /\ dirExists' = TRUE
    /\ LET file_exists == fileExists
           has_content == file_exists /\ NonEmpty(file)
       IN file' = to_csv(file, main_df, ~has_content)
    /\ fileExists' = TRUE
    /\ pc' = "report"
    /\ UNCHANGED <<main_account_key, calls, linkRes, link, dlRes, main_payload, fetched_at,
                   main_df, err,
                   clock, stdout, runs, atStart>>
    /\ UNCHANGED <<decVars, flatVars>>

\* main(), lines 207-209
Report ==
    /\ pc = "report"
    /\ stdout' = Append(stdout, [fetchedAtUTC |-> fetched_at,
                                 LastUpdatedTime |-> Get(main_payload, "LastUpdatedTime", Null),
                                 appended |-> Len(main_df.rows)])
    /\ pc' = "exited"
    /\ UNCHANGED <<main_account_key, calls, linkRes, link, dlRes, main_payload, fetched_at,
                   main_df, err,
                   clock, dirExists, fileExists, file, runs, atStart>>
    /\ UNCHANGED <<decVars, flatVars>>

\* the schedule starts the next run, a new process, later
NextRun ==
    /\ pc = "exited"
    /\ runs < MaxRuns
    /\ runs' = runs + 1
    /\ clock' = clock + 1
    /\ pc' = "start"
    /\ main_account_key' \in {Null, StrV(<<>>), StrV(<<"K">>)}
    /\ calls' = <<>>
    /\ linkRes' = NoResponse
    /\ link' = Null
    /\ dlRes' = NoResponse
    /\ main_payload' = Null
    /\ fetched_at' = Null
    /\ main_df' = NoFrame
    /\ err' = NoError
    /\ atStart' = Snapshot
    /\ UNCHANGED <<dirExists, fileExists, file, stdout>>
    /\ UNCHANGED <<decVars, flatVars>>

Next ==
    \/ MainStart
    \/ get_ev_batch_download_link
    \/ download_ev_batch_json
    \/ FlattenPayload
    \/ append_to_csv
    \/ Report
    \/ NextRun

Spec == Init /\ [][Next]_vars

NextDecode == Decode

SpecDecode == InitDecode /\ [][NextDecode]_vars

NextFlatten == Flatten

SpecFlatten == InitFlatten /\ [][NextFlatten]_vars

\* ------------------------------------------------------------------
\*  Properties of the decoders (SpecDecode)
\* ------------------------------------------------------------------

\* the string form of a raw code, the empty string for an absent code
StringForm(code) == IF code = Null THEN <<>> ELSE PyStr(code)

\* n is s without its surrounding whitespace
IsTrimOf(n, s) ==
    \E i \in 0 .. Len(s) : \E j \in i .. Len(s) :
        /\ n = SubSeq(s, i + 1, j)
        /\ \A k \in 1 .. i : s[k] \in Whitespace
        /\ \A k \in (j + 1) .. Len(s) : s[k] \in Whitespace
        /\ n = <<>> \/ (n[1] \notin Whitespace /\ n[Len(n)] \notin Whitespace)

\* the pieces of s
Pieces(s) == {SubSeq(s, i + 1, j) : i \in 0 .. Len(s), j \in 0 .. Len(s)}

DocumentedLocation(n) ==
    CASE n = <<"0">> -> "Occupied (all points occupied)"
      [] n = <<"1">> -> "Available (at least one point available)"
      [] n = <<"1", "0", "0">> -> "Not Available (all points not available)"
      [] n = <<>> -> "Unknown/Not Provided"
      [] OTHER -> "Unknown/Other"

DocumentedPoint(n) ==
    CASE n = <<"0">> -> "Occupied"
      [] n = <<"1">> -> "Available"
      [] n = <<"1", "0", "0">> -> "Not Available"
      [] n = <<>> -> "Unknown/Not Provided"
      [] OTHER -> "Unknown/Other"

DocumentedConnector(n) ==
    CASE n = <<"0">> -> "Occupied"
      [] n = <<"1">> -> "Available"
      [] n = <<>> -> "Not Available"
      [] OTHER -> "Unknown/Other"

\* C2: each decoder maps the trimmed string form of every raw code (the empty
\* string for an absent code) to the description documented for its table:
\* the defined codes to their descriptions, every other non-empty code to
\* "Unknown/Other" ("100" included for the connector), the empty code to
\* "Unknown/Not Provided" for location and point and "Not Available" for the
\* connector.
C2_DecodersFollowTables ==
    descs # NoDescs =>
        \A n \in Pieces(StringForm(raw)) :
            IsTrimOf(n, StringForm(raw)) =>
                /\ descs.location = DocumentedLocation(n)
                /\ descs.point = DocumentedPoint(n)
                /\ descs.evid = DocumentedConnector(n)

\* " 100" decoded: not available for location and point, other for the connector
C2_Witness ==
    /\ raw = StrV(<<" ", "1", "0", "0">>)
    /\ descs = [location |-> "Not Available (all points not available)",
                point |-> "Not Available",
                evid |-> "Unknown/Other"]

\* ------------------------------------------------------------------
\*  Properties of the flattening (SpecFlatten)
\* ------------------------------------------------------------------

\* the entries of the array under key, none when it is absent or null
Entries(obj, key) ==
    IF key \in DOMAIN obj /\ obj[key].t = "arr" THEN obj[key].v ELSE <<>>

LocationAt(p, q) == Entries(p, "evLocationsData")[q[1]]

PointAt(p, q) == Entries(LocationAt(p, q), "chargingPoints")[q[2]]

PlugAt(p, q) == Entries(PointAt(p, q), "plugTypes")[q[3]]

ConnectorAt(p, q) == Entries(PlugAt(p, q), "evIds")[q[4]]

\* the connector entries of a payload, each as the four indices that lead to it
LeafPaths(p) ==
    UNION {UNION {UNION {{<<i, j, k, l>> :
                            l \in 1 .. Len(Entries(PlugAt(p, <<i, j, k>>), "evIds"))} :
                         k \in 1 .. Len(Entries(PointAt(p, <<i, j>>), "plugTypes"))} :
                  j \in 1 .. Len(Entries(LocationAt(p, <<i>>), "chargingPoints"))} :
           i \in 1 .. Len(Entries(p, "evLocationsData"))}

\* location, then charging point, then plug type, then connector
PathBefore(a, b) ==
    \E n \in 1 .. 4 : a[n] < b[n] /\ \A m \in 1 .. (n - 1) : a[m] = b[m]

Rank(q, paths) == Cardinality({a \in paths : PathBefore(a, q)}) + 1

\* the row is the one of the connector entry at q
TracesTo(row, p, q) ==
    /\ row.location_locationId = Get(LocationAt(p, q), "locationId", Null)
    /\ row.cp_id = Get(PointAt(p, q), "id", Null)
    /\ row.plug_plugType = Get(PlugAt(p, q), "plugType", Null)
    /\ row.ev_id = Get(ConnectorAt(p, q), "id", Null)
    /\ row.evCpId = Get(ConnectorAt(p, q), "evCpId", Null)
    /\ row.ev_status = Get(ConnectorAt(p, q), "status", Null)

\* C1: the frame has one row per connector entry, as many rows as there are
\* entries of evIds in all, and the n-th row is the one of the n-th entry in
\* location, charging point, plug type, connector order.
C1_OneRowPerConnector ==
    flattened =>
        LET paths == LeafPaths(fpayload)
        IN /\ ~frame.raised
           /\ Len(frame.rows) = Cardinality(paths)
           /\ \A q \in paths : TracesTo(frame.rows[Rank(q, paths)], fpayload, q)

\* two locations, a connector each, flattened
C1_Witness ==
    /\ flattened
    /\ Len(frame.rows) = 2
    /\ frame.rows[1].location_locationId = Id("L", 1)
    /\ frame.rows[2].location_locationId = Id("L", 2)

RECURSIVE Bears(_, _)
\* the node at level has a connector entry below it
Bears(node, level) ==
    \/ level = 4
    \/ \E n \in 1 .. Len(Entries(node, ChildKey(level))) :
          Bears(Entries(node, ChildKey(level))[n], level + 1)

RECURSIVE PruneNode(_, _), PruneList(_, _)
\* the node without its branches that end in an absent, null or empty array
PruneNode(node, level) ==
    IF level = 4 THEN node
    ELSE (ChildKey(level) :> ArrV(PruneList(Entries(node, ChildKey(level)), level + 1)))
         @@ node

PruneList(nodes, level) ==
    IF nodes = <<>> THEN <<>>
    ELSE (IF Bears(Head(nodes), level) THEN <<PruneNode(Head(nodes), level)>> ELSE <<>>)
         \o PruneList(Tail(nodes), level)

\* C7: an absent, null or empty array raises nothing and gives no row, and the
\* rows are those of the payload without the branches that end in such an
\* array; a location without charging points has no row.
C7_EmptyBranches ==
    flattened =>
        /\ ~frame.raised
        /\ frame.rows = flatten_evc_batch(PruneNode(fpayload, 0), FetchedAt).rows
        /\ \A i \in 1 .. Len(Entries(fpayload, "evLocationsData")) :
              LET loc == Entries(fpayload, "evLocationsData")[i]
              IN Entries(loc, "chargingPoints") = <<>> =>
                    \A r \in 1 .. Len(frame.rows) :
                        frame.rows[r].location_locationId # Get(loc, "locationId", Null)

\* a location whose chargingPoints is null, before one with a connector
C7_Witness ==
    /\ flattened
    /\ Len(Entries(fpayload, "evLocationsData")) = 2
    /\ Get(Entries(fpayload, "evLocationsData")[1], "chargingPoints", ArrV(<<>>)) = Null
    /\ Len(frame.rows) = 1
    /\ frame.rows[1].location_locationId = Id("L", 2)

\* digits, with at most one point between them
LooksNumeric(s) ==
    /\ s # <<>>
    /\ \A n \in 1 .. Len(s) : s[n] \in Digits \cup {"."}
    /\ Cardinality({n \in 1 .. Len(s) : s[n] = "."}) <= 1
    /\ s[1] \in Digits /\ s[Len(s)] \in Digits

\* the value cannot be parsed as a number
Unparseable(x) == ~(x.t \in {"int", "float"} \/ (x.t = "str" /\ LooksNumeric(x.v)))

Repaired(loc, key) ==
    IF Unparseable(Get(loc, key, Null)) THEN (key :> IntV(0)) @@ loc ELSE loc

\* the payload with a number for every coordinate that cannot be parsed
Repair(p) ==
    ("evLocationsData" :>
        ArrV([i \in 1 .. Len(Entries(p, "evLocationsData")) |->
                Repaired(Repaired(Entries(p, "evLocationsData")[i], "longtitude"),
                         "latitude")]))
    @@ p

WithoutCoordinates(row) ==
    [row EXCEPT !.location_longtitude = Null, !.location_latitude = Null]

\* C9: a longitude or latitude that cannot be parsed raises nothing and is the
\* missing-value marker in the rows of its location; there are as many rows,
\* with the same other fields, as for the payload with numbers in its place.
C9_BadCoordinate ==
    flattened =>
        LET paths == LeafPaths(fpayload)
            good == flatten_evc_batch(Repair(fpayload), FetchedAt)
        IN /\ ~frame.raised
           /\ Len(frame.rows) = Len(good.rows)
           /\ Len(frame.rows) = Cardinality(paths)
           /\ \A r \in 1 .. Len(frame.rows) :
                 WithoutCoordinates(frame.rows[r]) = WithoutCoordinates(good.rows[r])
           /\ \A q \in paths :
                 LET row == frame.rows[Rank(q, paths)]
                     loc == LocationAt(fpayload, q)
                 IN /\ Unparseable(Get(loc, "longtitude", Null))
                          => row.location_longtitude = NaN
                    /\ Unparseable(Get(loc, "latitude", Null))
                          => row.location_latitude = NaN

\* the longitude "N/A" of the first location, a number in the second
C9_Witness ==
    /\ flattened
    /\ Len(frame.rows) = 2
    /\ Get(LocationAt(fpayload, <<1>>), "longtitude", Null) = StrV(<<"N", "/", "A">>)
    /\ frame.rows[1].location_longtitude = NaN
    /\ frame.rows[1].ev_id = Id("E", 1)
    /\ frame.rows[2].location_longtitude = FloatV(103, 0)

\* ------------------------------------------------------------------
\*  Properties of the runs (Spec)
\* ------------------------------------------------------------------

\* append_to_csv has been called on the file
Appended == stdout # <<>> \/ pc = "report"

IsRow(line) == line.kind = "row"

\* the data rows of the file
DataRows(f) == SelectSeq(f.lines, IsRow)

IsPrefix(a, b) == Len(a) <= Len(b) /\ SubSeq(b, 1, Len(a)) = a

\* C3: once append_to_csv has been called, the file has the header line (the
\* column names) as its first line and no other header line.
C3_HeaderOnce ==
    Appended =>
        /\ file.lines # <<>>
        /\ file.lines[1] = HeaderLine(Columns)
        /\ \A n \in 2 .. Len(file.lines) : file.lines[n].kind # "header"

RECURSIVE PrintedStamps(_)
\* the timestamp of each run that reported, once for each row it appended
PrintedStamps(out) ==
    IF out = <<>> THEN <<>>
    ELSE PrintedStamps(SubSeq(out, 1, Len(out) - 1))
         \o [n \in 1 .. out[Len(out)].appended |-> PyStr(out[Len(out)].fetchedAtUTC)]

\* C4: no step changes what the file holds already, a call of append_to_csv
\* adds the rows of its frame after the data rows there were, and when a run
\* has ended the data rows of the file are those the runs reported, as many
\* and in the order of the runs.
C4_AppendOnly ==
    /\ [][/\ IsPrefix(file.lines, file'.lines)
          /\ file.bom => file'.bom
          /\ fileExists => fileExists'
          /\ pc = "append" =>
                DataRows(file') =
                    DataRows(file)
                    \o [r \in 1 .. Len(main_df.rows) |-> RowLine(main_df.rows[r])]]_vars
    /\ [](pc = "exited" =>
            [n \in 1 .. Len(DataRows(file)) |-> DataRows(file)[n].cells[1]]
                = PrintedStamps(stdout))

\* two runs have appended rows, three rows in all
C4_Witness ==
    /\ pc = "exited"
    /\ Len(stdout) = 2
    /\ stdout[1].appended = 1
    /\ stdout[2].appended = 2
    /\ Len(DataRows(file)) = 3

\* the directory and the file are as the run found them
Untouched ==
    /\ dirExists = atStart.dirExists
    /\ fileExists = atStart.fileExists
    /\ file = atStart.file

\* the exception main() raises for a missing key (the spec's ConfigError)
IsConfigError(e) ==
    /\ e.cls = "RuntimeError"
    /\ e.msg = "Missing env var LTA_ACCOUNT_KEY. Add it as a GitHub Secret."

\* C5: a run whose key is unset or empty ends with the error of the missing
\* key, without a network call and without a change of the file.
C5_MissingKeyFirst ==
    (main_account_key \in {Null, StrV(<<>>)} /\ pc # "start") =>
        /\ pc = "exited"
        /\ IsConfigError(err)
        /\ calls = <<>>
        /\ Untouched

\* a later run with an empty key, rows in the file
C5_Witness ==
    /\ main_account_key = StrV(<<>>)
    /\ pc = "exited"
    /\ IsConfigError(err)
    /\ runs = 2
    /\ DataRows(file) # <<>>

\* the response has a first element of value with a Link
HasLink(body) ==
    /\ Entries(body, "value") # <<>>
    /\ "Link" \in DOMAIN Entries(body, "value")[1]

\* the exception for a response without a link (the spec's MalformedResponseError)
IsNoLinkError(e, body) ==
    /\ e.cls = "RuntimeError"
    /\ e.msg = "No 'Link' found in response. Full response:"
    /\ e.detail = body

\* C6: for a response that is a JSON object, get_ev_batch_download_link
\* returns the Link of the first element of value when there is one; without
\* one (value absent, null or empty, first element without Link) the run ends
\* with the error that carries the response, and nothing is downloaded.
C6_FirstLinkOrError ==
    (pc \notin {"start", "resolve"} /\ calls # <<>>
     /\ linkRes.status = 200 /\ linkRes.body # NotJson
     /\ "t" \notin DOMAIN linkRes.body) =>
        IF HasLink(linkRes.body)
        THEN /\ link = Entries(linkRes.body, "value")[1]["Link"]
             /\ err.msg # "No 'Link' found in response. Full response:"
        ELSE /\ pc = "exited"
             /\ IsNoLinkError(err, linkRes.body)
             /\ Len(calls) = 1

\* an empty value array: the error with the response, one call made
C6_Witness ==
    /\ pc = "exited"
    /\ linkRes.body = (Meta @@ ("value" :> ArrV(<<>>)))
    /\ IsNoLinkError(err, linkRes.body)
    /\ Len(calls) = 1

\* the status is an error status
IsErrorStatus(status) == status \notin 200 .. 399

RunsThatWrote ==
    {PyStr(stdout[n].fetchedAtUTC) : n \in 1 .. Len(stdout)}
    \cup (IF pc = "report" THEN {PyStr(fetched_at)} ELSE {})

\* C10: until append_to_csv is called, and so in a run that has failed, the
\* directory and the file are as the run found them; every data row of the
\* file is of a run that called append_to_csv.
C10_FailedRunWritesNothing ==
    /\ (pc \in {"start", "resolve", "download", "flatten", "append"}
        \/ (pc = "exited" /\ err # NoError)) => Untouched
    /\ \A n \in 1 .. Len(DataRows(file)) : DataRows(file)[n].cells[1] \in RunsThatWrote

\* the download of a later run was no JSON, rows in the file
C10_Witness ==
    /\ pc = "exited"
    /\ err.cls = "JSONDecodeError"
    /\ Len(calls) = 2
    /\ runs = 2
    /\ DataRows(file) # <<>>

====
